---------------------------- MODULE Spec2Model ----------------------------
(***************************************************************************)
(* rgb2aled: the WS2812B 1/2 pixel controller of src/rgb2aled.ino, as a    *)
(* cycle-counted state machine.  One step of the machine is one AVR        *)
(* instruction (or a run of instructions that neither read the data input  *)
(* nor drive an output), costing the cycles the source's comments count;   *)
(* the data line is an environment that moves one cycle at a time while    *)
(* the instruction runs.  An instruction that reads the input reads the    *)
(* level of the line at its first cycle.                                   *)
(***************************************************************************)
EXTENDS Integers, Sequences, FiniteSets, TLC

VARIABLES
    twoLeds,      \* build-time TWO_LEDS: TRUE = 48-bit capture, FALSE = 24-bit
    pc,           \* the label / instruction the machine is about to execute
    idx,          \* position in an unrolled block: bit of the capture, poll of the .rept, sts of the commit
    regs,         \* r16..r21, the capture registers
    r22,          \* the power-on sync counter
    ocr,          \* the six PWM duty registers
    dout,         \* PORTD bit DATA_OUT, the relayed data line
    env,          \* the data input line and the sender driving it
    capTx,        \* observer: the bit values the sender gave the pulses this capture has consumed
    capRx,        \* observer: the bit values READ_BIT sampled for this capture
    timely,       \* observer: every pulse of this capture was detected within 2 cycles of its rise
    lowRun,       \* observer: consecutive rising-edge polls that read low (saturating)
    pending,      \* observer: bits of the pulses that rose while the relay was open and are not yet regenerated
    relayOk,      \* observer: every pulse regenerated so far was the oldest pending one, with its bit value
    overlong,     \* observer: a relay poll saw a pulse that had already been relayed
    idleCommits,  \* observer: commits entered since the input last rose (saturating)
    held,         \* observer: the duty registers as they were when this capture began
    unseen,       \* observer: a pulse rose between the last low read before this capture and the capture's first read
    prevTx,       \* observer: capTx of the capture before this one, if each of its pulses was detected within 2 cycles; else empty
    cycle,        \* observer: cycles run since the poll that detected the pulse being relayed, that poll's first cycle being 1
    relayed,      \* observer: the relay has detected a pulse since the capture ended
    r24,          \* fixed-count sketch: the bit counter of CAPT_SHIELD
    smashed       \* fixed-count sketch, observer: SMASH_SHIELDs run since the capture ended

vars == <<twoLeds, pc, idx, regs, r22, ocr, dout, env, capTx, capRx, timely, lowRun,
          pending, relayOk, overlong, idleCommits, held, unseen, prevTx, cycle, relayed,
          r24, smashed>>

Min(a, b) == IF a < b THEN a ELSE b

---------------------------------------------------------------------------
(* Program constants *)

\* ".rept 256": the polls of the relay's idle-gap budget
RelayPolls == 256
\* "ldi r22, 250": the low checks of the power-on sync
SyncCount == 250
\* READ_BYTE is eight READ_BITs
BitsPerByte == 8
\* OCRnx = 255: LED off (common anode)
OffValue == 255

Regs == 16..21
OcrNames == {"OCR1A", "OCR1B", "OCR2A", "OCR2B", "OCR0B", "OCR0A"}

\* a variant: capture_start without the READ_BYTEs under #ifdef TWO_LEDS
CaptureBytesOnePixel(two) == 3

\* capture_start: three READ_BYTEs, six under TWO_LEDS
CaptureBytes(two) == IF two THEN 6 ELSE 3
CaptureBits(two) == CaptureBytes(two) * BitsPerByte

\* a variant: every READ_BYTE of capture_start naming r16
RegOne(i) == 16

\* "READ_BYTE r16 // G1" .. "READ_BYTE r21 // B2": the register bit i shifts into
RegOf(i) == 16 + (i \div BitsPerByte)

---------------------------------------------------------------------------
(* The data line: WS2812B pulses, in CPU cycles of 62.5 ns *)

\* '0' is HIGH for ~300-400ns, '1' is HIGH for ~625-800ns
T0HMin == 5
T0HMax == 6
T1HMin == 10
T1HMax == 13
\* the sender may be another of these controllers: the widths relay_bit's comments give its output
RelayHigh0 == 6
RelayHigh1 == 11
\* 0.8 us high + 0.45 us low: one bit is 1.25 us
BitPeriod == 20
\* a '1' leaves 0.45 us of low before the next bit
T1L == 7

\* Bounds of the sender
MaxFrames == 2
LongHigh == 24

\* The frames the sender may transmit: six channel bytes G1 R1 B1 G2 R2 B2
Patterns == << <<0, 255, 128, 1, 165, 126>>, <<90, 60, 195, 254, 16, 129>> >>
NumPatterns == Len(Patterns)
PatBits == 6 * BitsPerByte
\* pulses a frame may have: one pixel, two pixels, two pixels and two more bits
FrameLens == {3 * BitsPerByte, 6 * BitsPerByte, 6 * BitsPerByte + 2}
MaxLen == 6 * BitsPerByte + 2

\* The idle gap before a frame, measured in the receiver's own low polls: the
\* sender starts a frame after a gap far too short to be a reset, around the
\* relay's last poll, or at any moment once the gap has outlasted the relay's budget
ArrivalPolls == {20, RelayPolls - 2, RelayPolls - 1}
CanArrive(lr) == lr \in ArrivalPolls \/ lr >= RelayPolls

Pow2(n) == IF n = 0 THEN 1 ELSE IF n = 1 THEN 2 ELSE IF n = 2 THEN 4 ELSE IF n = 3 THEN 8
           ELSE IF n = 4 THEN 16 ELSE IF n = 5 THEN 32 ELSE IF n = 6 THEN 64 ELSE 128

\* bits go out most-significant-bit-first, byte after byte
TxBit(p, i) == (Patterns[p][(i \div BitsPerByte) + 1] \div Pow2(7 - (i % BitsPerByte))) % 2

\* the line idle (low), fr frames sent so far
IdleEnv(fr) == [din |-> 0, ph |-> "idle", age |-> 0,
                bit |-> 0, pat |-> 0, sent |-> 0, det |-> FALSE, fr |-> fr]

\* the high times, in cycles, of a pulse carrying bit b; a '1' may also be far too long
Highs(b) == IF b = 0 THEN {T0HMin, T0HMax, RelayHigh0}
            ELSE {T1HMin, RelayHigh1, T1HMax, LongHigh}
\* a pulse and the low that follows it: one bit period, or a '1' that overran it and its low
PeriodAt(a) == IF a >= BitPeriod THEN LongHigh + T1L ELSE BitPeriod

\* the line rises: pulse i of pattern p begins
Rises(p, i, fr) ==
    {[din |-> 1, ph |-> "high", age |-> 0, bit |-> b,
      pat |-> p, sent |-> i + 1, det |-> FALSE, fr |-> fr]
     : b \in IF i < PatBits THEN {TxBit(p, i)} ELSE {0, 1}}

\* one cycle of the line; age is the number of cycles since the pulse rose
EnvTick(e, lr) ==
    LET a == e.age + 1
    IN  CASE e.ph = "idle" ->
               {e} \cup (IF e.fr < MaxFrames /\ CanArrive(lr)
                     THEN UNION {Rises(p, 0, e.fr + 1) : p \in 1..NumPatterns}
                     ELSE {})
          [] e.ph = "stuck" -> {e}
          [] e.ph = "high" ->
               (IF \E h \in Highs(e.bit) : a < h THEN {[e EXCEPT !.age = a]} ELSE {})
               \cup (IF a \in Highs(e.bit) THEN {[e EXCEPT !.din = 0, !.ph = "low", !.age = a]} ELSE {})
               \cup (IF a = LongHigh /\ e.bit = 1
                     THEN {[e EXCEPT !.ph = "stuck", !.age = a, !.pat = 0, !.sent = 0]}
                     ELSE {})
          [] OTHER ->
               IF a < PeriodAt(e.age)
               THEN {[e EXCEPT !.age = a]}
               ELSE (IF e.sent < MaxLen THEN Rises(e.pat, e.sent, e.fr) ELSE {})
                    \cup (IF e.sent \in FrameLens THEN {IdleEnv(e.fr)} ELSE {})

\* the states the line can be in k cycles on
RECURSIVE EnvRun(_, _, _)
EnvRun(e, k, lr) ==
    IF k = 0 THEN {e} ELSE UNION {EnvRun(e2, k - 1, lr) : e2 \in EnvTick(e, lr)}

\* the machine has seen the pulse now on the line
Detected(e) == [e EXCEPT !.det = TRUE]

\* a pulse began during the k cycles that led to e
Rose(e, k) == e.ph \in {"high", "low"} /\ e.age < k

---------------------------------------------------------------------------
(* The machine *)

\* the line k cycles after e, while one instruction runs
EnvAfter(e, k) == EnvRun(e, k, lowRun)

\* the four phases of loop(): the sections of the assembly block
State(p) ==
    CASE p \in {"start_frame", "wait_reset", "r_chk"} -> "SYNCING"
      [] p \in {"rb_rise", "rb_delay", "rb_sample", "rb_fall"} -> "CAPTURING"
      [] p \in {"update_now", "sts", "jmp_capture"} -> "COMMITTING"
      [] OTHER -> "RELAYING"

\* the relay is open to a new pulse: from relay_entry until the 256th poll has read low
RelayWindow == {"poll", "sbi", "jmp_relay_bit", "rl_s1", "rl_cbi0", "rl_s2", "rl_cbi",
                "jmp_relay_entry"}

\* what r16..r21 hold when loop() is first entered is whatever the C runtime left
JunkVals == {0, 170}

---------------------------------------------------------------------------
(* Variants of single instructions.  None of them is the program; each is
   what one plausible slip in the assembly would give, and the properties
   below are tested against them. *)

\* com left out of update_now
ComNone(r) == r
\* "sbic; cbi" written for "sbis; cbi" in relay_bit
RelayShortInv(d) == d = 1
\* relay_bit without "sbis; cbi": every pulse regenerated as a long one
RelayNeverShort(d) == FALSE
\* READ_BIT without its four nop and lsl: the sample follows the rise at once
NoCenterDelay == "rb_sample"
\* READ_BIT with "ori reg, 0"
OriNone(r) == r
\* the .rept block followed by "jmp relay_entry": the 256th low poll starts over
PollWrap(i) == (i + 1) % RelayPolls
\* a cbi that leaves the output bit as it was
KeepBit(d) == d
\* READ_BIT storing the inverted green register into OCR1B as it goes
EagerStore(o, r, i) == [o EXCEPT !["OCR1B"] = 255 - r[16]]
\* "rjmp .+12": a low poll skipping every other copy of the .rept body
PollSkip(i) == i + 2
\* a variant: relay_bit with four nops for one
S2Padded(d) == 7
\* a variant: relay_bit without rjmp .+0 and nop
S2NoSync(d) == 2 - d
\* a variant: a relay poll that jumps back to itself
PollStay(i) == i
\* the "sbic; rjmp .+0" of relay_bit jumping over the last cbi
SkipLastCbi == "jmp_relay_entry"
\* the commit ending in "jmp relay_entry"
CommitToRelay == "poll"
\* the commit ending in "jmp wait_reset", as earlier versions of the sketch did
CommitToSync == "wait_reset"
\* READ_BIT giving up after RelayPolls low reads and committing what it has
CaptureTimeoutCommit(lr) == IF lr >= RelayPolls THEN "jmp_update" ELSE "rb_rise"
\* capture_start falling into update_now, with no relay and no wait for the idle gap
CaptureToCommit == "update_now"
\* r_chk with "jmp r_chk": a high read that does not reload r22
SyncNoReload == "r_chk"
\* update_now without the #ifdef: com r19..r21 in either build
ComAll(two) == 16..21
\* "rol reg" for "lsl reg": the bit shifted out at the top comes back in at the bottom
ROL(r) == ((r * 2) % 256) + (r \div 128)
\* READ_BIT giving up after RelayPolls low reads and waiting for reset again
CaptureTimeoutResync(lr) == IF lr >= RelayPolls THEN "wait_reset" ELSE "rb_rise"

---------------------------------------------------------------------------
\* lsl reg, on an 8-bit register
LSL(r) == (r * 2) % 256
\* ori reg, 1
ORI1(r) == IF r % 2 = 0 THEN r + 1 ELSE r
\* com reg: one's complement, 255 - reg
COM(r) == 255 - r

\* "sts 0x88, r17" .. "sts 0x47, r21", in program order
StsSeq == << <<"OCR1A", 17>>, <<"OCR1B", 16>>, <<"OCR2A", 18>>,
             <<"OCR2B", 20>>, <<"OCR0B", 19>>, <<"OCR0A", 21>> >>

\* the registers update_now complements
ComRegs(two) == IF two THEN 16..21 ELSE 16..18

\* READ_BIT, after the rise: the delay to the sampling point
AfterRise == "rb_delay"
\* READ_BIT step 1, "1: sbis; rjmp 1b": a low read loops back, however many came before
ReadBitLowNext(lr) == "rb_rise"

\* READ_BIT stores nothing: the duty registers after a bit has been read
AfterReadBit(o, r, i) == o

\* "rjmp .+6": a low poll falls through to the next copy of the .rept body
PollNext(i) == i + 1

\* relay_bit, "sbis; cbi": the early cbi runs when the input reads low
RelayShort(d) == d = 0

\* sbi PORTD, 4 and cbi PORTD, 4: the output bit after the instruction, whatever it was
SBI(d) == 1
CBI(d) == 0

\* both arms of the second sample fall into "nop; cbi"
\* relay_bit, second sample to the last cbi: sbic, rjmp .+0 when it is not skipped, nop
S2Cycles(d) == IF d = 1 THEN 4 ELSE 3
AfterS2 == "rl_cbi"

\* "jmp capture_start": where the commit hands over
AfterCommit == "rb_rise"

\* the last READ_BIT of capture_start falls into relay_entry
AfterCapture == "poll"

\* r_chk, "sbic; jmp wait_reset": a high read goes back to the reload of r22
AfterSyncHigh == "wait_reset"

Bump(lr) == Min(lr + 1, RelayPolls)

\* a capture begins: the observers of the previous frame are cleared
NewCapture ==
    /\ capTx' = <<>>
    /\ capRx' = <<>>
    /\ timely' = TRUE
    /\ pending' = <<>>
    /\ relayOk' = TRUE
    /\ overlong' = FALSE
    /\ held' = ocr
    /\ prevTx' = IF timely THEN capTx ELSE <<>>
    /\ relayed' = FALSE

\* q with the pulse that rose during a step of k cycles ending at label p, if any
Arrived(q, k, p) ==
    IF Rose(env', k) /\ p \in RelayWindow THEN Append(q, env'.bit) ELSE q

\* a step of k cycles that ends at label p and regenerates nothing
NoteIn(k, p, ov) ==
    pending' = IF ov THEN <<>> ELSE Arrived(pending, k, p)

\* a step that fixes the regenerated pulse as a b: it answers the oldest pending pulse
NoteOut(b, k, p) ==
    /\ pending' = IF overlong THEN <<>>
                  ELSE Arrived(IF pending = <<>> THEN pending ELSE Tail(pending), k, p)
    /\ relayOk' = (relayOk /\ (overlong \/ (pending # <<>> /\ Head(pending) = b)))

\* a step of k cycles, none of which reads the input, on the way into a capture
NoteUnseen(k) == unseen' = (unseen \/ Rose(env', k))

\* commits since the input last rose
NoteIdle(k, entering) ==
    idleCommits' = Min((IF Rose(env', k) THEN 0 ELSE idleCommits) + (IF entering THEN 1 ELSE 0), 2)

Init ==
    /\ twoLeds \in BOOLEAN
    /\ pc = "start_frame"
    /\ idx = 0
    /\ \E j \in JunkVals : regs = [r \in Regs |-> j]
    /\ r22 = 0
    /\ ocr = [n \in OcrNames |-> OffValue]
    /\ dout = 0
    /\ env = IdleEnv(0)
    /\ capTx = <<>>
    /\ capRx = <<>>
    /\ timely = TRUE
    /\ lowRun = 0
    /\ pending = <<>>
    /\ relayOk = TRUE
    /\ overlong = FALSE
    /\ idleCommits = 0
    /\ held = [n \in OcrNames |-> OffValue]
    /\ unseen = FALSE
    /\ prevTx = <<>>
    /\ cycle = 0
    /\ relayed = FALSE
    /\ r24 = 0
    /\ smashed = 0

\* start_frame: without TWO_LEDS, three ldi load r19..r21 with 255
StartFrame ==
    /\ pc = "start_frame"
    /\ env' \in EnvAfter(env, IF twoLeds THEN 0 ELSE 3)
    /\ regs' = IF twoLeds THEN regs ELSE [regs EXCEPT ![19] = 255, ![20] = 255, ![21] = 255]
    /\ pc' = "wait_reset"
    /\ NoteIn(IF twoLeds THEN 0 ELSE 3, "wait_reset", overlong)
    /\ NoteIdle(IF twoLeds THEN 0 ELSE 3, FALSE)
    /\ UNCHANGED <<twoLeds, idx, r22, ocr, dout, capTx, capRx, timely, lowRun, relayOk, overlong, held, unseen, prevTx, cycle, relayed, r24, smashed>>

\* wait_reset: ldi r22, 250
WaitReset ==
    /\ pc = "wait_reset"
    /\ env' \in EnvAfter(env, 1)
    /\ r22' = SyncCount
    /\ pc' = "r_chk"
    /\ NoteIn(1, "r_chk", overlong)
    /\ NoteIdle(1, FALSE)
    /\ UNCHANGED <<twoLeds, idx, regs, ocr, dout, capTx, capRx, timely, lowRun, relayOk, overlong, held, unseen, prevTx, cycle, relayed, r24, smashed>>

\* r_chk with the input high: sbic (1) falls into jmp wait_reset (3)
RChkHigh ==
    /\ pc = "r_chk"
    /\ env.din = 1
    /\ env' \in EnvAfter(env, 4)
    /\ pc' = AfterSyncHigh
    /\ lowRun' = 0
    /\ NoteIn(4, AfterSyncHigh, overlong)
    /\ NoteIdle(4, FALSE)
    /\ UNCHANGED <<twoLeds, idx, regs, r22, ocr, dout, capTx, capRx, timely, relayOk, overlong, held, unseen, prevTx, cycle, relayed, r24, smashed>>

\* r_chk with the input low, counter not yet spent: sbic skips the two-word jmp (3), dec (1), brne taken (2)
RChkLow ==
    /\ pc = "r_chk"
    /\ env.din = 0
    /\ r22 - 1 # 0
    /\ env' \in EnvAfter(env, 6)
    /\ r22' = r22 - 1
    /\ pc' = "r_chk"
    /\ lowRun' = Bump(lowRun)
    /\ NoteIn(6, "r_chk", overlong)
    /\ NoteIdle(6, FALSE)
    /\ UNCHANGED <<twoLeds, idx, regs, ocr, dout, capTx, capRx, timely, relayOk, overlong, held, unseen, prevTx, cycle, relayed, r24, smashed>>

\* the 250th low check: sbic skips (3), dec (1), brne falls through (1) into capture_start
RChkDone ==
    /\ pc = "r_chk"
    /\ env.din = 0
    /\ r22 - 1 = 0
    /\ env' \in EnvAfter(env, 5)
    /\ r22' = 0
    /\ pc' = "rb_rise"
    /\ idx' = 0
    /\ lowRun' = Bump(lowRun)
    /\ NewCapture
    /\ NoteIdle(5, FALSE)
    /\ NoteUnseen(5)
    /\ UNCHANGED <<twoLeds, regs, ocr, dout, cycle, r24, smashed>>

\* READ_BIT step 1, input low: sbis (1), rjmp 1b (2)
RbRiseLow ==
    /\ pc = "rb_rise"
    /\ env.din = 0
    /\ env' \in EnvAfter(env, 3)
    /\ lowRun' = Bump(lowRun)
    /\ pc' = ReadBitLowNext(Bump(lowRun))
    /\ NoteIn(3, pc', overlong)
    /\ NoteIdle(3, pc' = "update_now")
    /\ UNCHANGED <<twoLeds, idx, regs, r22, ocr, dout, capTx, capRx, timely, relayOk, overlong, held, unseen, prevTx, cycle, relayed, r24, smashed>>

\* READ_BIT step 1, input high: sbis skips the rjmp (2); this pulse is the bit being read
RbRiseHigh ==
    /\ pc = "rb_rise"
    /\ env.din = 1
    /\ env' \in EnvAfter(Detected(env), 2)
    /\ pc' = AfterRise
    /\ capTx' = Append(capTx, env.bit)
    /\ timely' = (timely /\ env.age <= 2)
    /\ lowRun' = 0
    /\ NoteIn(2, AfterRise, overlong)
    /\ NoteIdle(2, FALSE)
    /\ unseen' = FALSE
    /\ UNCHANGED <<twoLeds, idx, regs, r22, ocr, dout, capRx, relayOk, overlong, held, prevTx, cycle, relayed, r24, smashed>>

\* READ_BIT step 2: four nop and lsl reg (5)
RbDelay ==
    /\ pc = "rb_delay"
    /\ env' \in EnvAfter(env, 5)
    /\ regs' = [regs EXCEPT ![RegOf(idx)] = LSL(@)]
    /\ pc' = "rb_sample"
    /\ NoteIn(5, "rb_sample", overlong)
    /\ NoteIdle(5, FALSE)
    /\ UNCHANGED <<twoLeds, idx, r22, ocr, dout, capTx, capRx, timely, lowRun, relayOk, overlong, held, unseen, prevTx, cycle, relayed, r24, smashed>>

\* READ_BIT step 3, input high: sbic (1), ori reg, 1 (1)
RbSampleHigh ==
    /\ pc = "rb_sample"
    /\ env.din = 1
    /\ env' \in EnvAfter(env, 2)
    /\ regs' = [regs EXCEPT ![RegOf(idx)] = ORI1(@)]
    /\ pc' = "rb_fall"
    /\ lowRun' = 0
    /\ NoteIn(2, "rb_fall", overlong)
    /\ NoteIdle(2, FALSE)
    /\ capRx' = Append(capRx, 1)
    /\ UNCHANGED <<twoLeds, idx, r22, ocr, dout, capTx, timely, relayOk, overlong, held, unseen, prevTx, cycle, relayed, r24, smashed>>

\* READ_BIT step 3, input low: sbic skips the ori (2)
RbSampleLow ==
    /\ pc = "rb_sample"
    /\ env.din = 0
    /\ env' \in EnvAfter(env, 2)
    /\ pc' = "rb_fall"
    /\ NoteIn(2, "rb_fall", overlong)
    /\ NoteIdle(2, FALSE)
    /\ capRx' = Append(capRx, 0)
    /\ UNCHANGED <<twoLeds, idx, regs, r22, ocr, dout, capTx, timely, lowRun, relayOk, overlong, held, unseen, prevTx, cycle, relayed, r24, smashed>>

\* READ_BIT step 4, input still high: sbic (1), rjmp 2b (2)
RbFallHigh ==
    /\ pc = "rb_fall"
    /\ env.din = 1
    /\ env' \in EnvAfter(env, 3)
    /\ lowRun' = 0
    /\ NoteIn(3, "rb_fall", overlong)
    /\ NoteIdle(3, FALSE)
    /\ UNCHANGED <<twoLeds, pc, idx, regs, r22, ocr, dout, capTx, capRx, timely, relayOk, overlong, held, unseen, prevTx, cycle, relayed, r24, smashed>>

\* READ_BIT step 4, input low: sbic skips the rjmp (2); on to the next READ_BIT, or to relay_entry
RbFallLow ==
    /\ pc = "rb_fall"
    /\ env.din = 0
    /\ env' \in EnvAfter(env, 2)
    /\ IF idx + 1 < CaptureBits(twoLeds)
       THEN pc' = "rb_rise" /\ idx' = idx + 1
       ELSE pc' = AfterCapture /\ idx' = 0
    /\ ocr' = AfterReadBit(ocr, regs, idx)
    /\ NoteIn(2, pc', overlong)
    /\ NoteIdle(2, FALSE)
    /\ UNCHANGED <<twoLeds, regs, r22, dout, capTx, capRx, timely, lowRun, relayOk, overlong, held, unseen, prevTx, cycle, relayed, r24, smashed>>

\* one copy of the .rept body, input low: sbis (1), rjmp .+6 (2)
PollLow ==
    /\ pc = "poll"
    /\ env.din = 0
    /\ env' \in EnvAfter(env, 3)
    /\ lowRun' = Bump(lowRun)
    /\ IF PollNext(idx) < RelayPolls
       THEN pc' = "poll" /\ idx' = PollNext(idx)
       ELSE pc' = "jmp_update" /\ idx' = 0
    /\ NoteIn(3, pc', overlong)
    /\ NoteIdle(3, FALSE)
    /\ unseen' = (pc' = "jmp_update" /\ Rose(env', 3))
    /\ cycle' = 0
    /\ UNCHANGED <<twoLeds, regs, r22, ocr, dout, capTx, capRx, timely, relayOk, overlong, held, prevTx, relayed, r24, smashed>>

\* one copy of the .rept body, input high: sbis skips the rjmp (2)
PollHigh ==
    /\ pc = "poll"
    /\ env.din = 1
    /\ env' \in EnvAfter(Detected(env), 2)
    /\ pc' = "sbi"
    /\ idx' = 0
    /\ lowRun' = 0
    /\ overlong' = (overlong \/ env.det)
    /\ NoteIn(2, "sbi", overlong')
    /\ NoteIdle(2, FALSE)
    /\ relayOk' = relayOk
    /\ cycle' = 2
    /\ relayed' = TRUE
    /\ UNCHANGED <<twoLeds, regs, r22, ocr, dout, capTx, capRx, timely, held, unseen, prevTx, r24, smashed>>

\* sbi: the output goes high at the end of the instruction (2)
Sbi ==
    /\ pc = "sbi"
    /\ env' \in EnvAfter(env, 2)
    /\ dout' = SBI(dout)
    /\ pc' = "jmp_relay_bit"
    /\ NoteIn(2, "jmp_relay_bit", overlong)
    /\ NoteIdle(2, FALSE)
    /\ cycle' = cycle + 2
    /\ UNCHANGED <<twoLeds, idx, regs, r22, ocr, capTx, capRx, timely, lowRun, relayOk, overlong, held, unseen, prevTx, relayed, r24, smashed>>

\* jmp relay_bit (3)
JmpRelayBit ==
    /\ pc = "jmp_relay_bit"
    /\ env' \in EnvAfter(env, 3)
    /\ pc' = "rl_s1"
    /\ NoteIn(3, "rl_s1", overlong)
    /\ NoteIdle(3, FALSE)
    /\ cycle' = cycle + 3
    /\ UNCHANGED <<twoLeds, idx, regs, r22, ocr, dout, capTx, capRx, timely, lowRun, relayOk, overlong, held, unseen, prevTx, relayed, r24, smashed>>

\* relay_bit, first sample, short pulse: sbis does not skip (1); the early cbi is next
RlS1Short ==
    /\ pc = "rl_s1"
    /\ RelayShort(env.din)
    /\ env' \in EnvAfter(env, 1)
    /\ pc' = "rl_cbi0"
    /\ lowRun' = IF env.din = 1 THEN 0 ELSE lowRun
    /\ NoteOut(0, 1, "rl_cbi0")
    /\ NoteIdle(1, FALSE)
    /\ cycle' = cycle + 1
    /\ UNCHANGED <<twoLeds, idx, regs, r22, ocr, dout, capTx, capRx, timely, overlong, held, unseen, prevTx, relayed, r24, smashed>>

\* relay_bit, first sample, long pulse: sbis skips the early cbi (2)
RlS1Long ==
    /\ pc = "rl_s1"
    /\ ~RelayShort(env.din)
    /\ env' \in EnvAfter(env, 2)
    /\ pc' = "rl_s2"
    /\ lowRun' = IF env.din = 1 THEN 0 ELSE lowRun
    /\ NoteOut(1, 2, "rl_s2")
    /\ NoteIdle(2, FALSE)
    /\ cycle' = cycle + 2
    /\ UNCHANGED <<twoLeds, idx, regs, r22, ocr, dout, capTx, capRx, timely, overlong, held, unseen, prevTx, relayed, r24, smashed>>

\* the early cbi: the output goes low at the end of the instruction (2)
RlCbi0 ==
    /\ pc = "rl_cbi0"
    /\ env' \in EnvAfter(env, 2)
    /\ dout' = CBI(dout)
    /\ pc' = "rl_s2"
    /\ NoteIn(2, "rl_s2", overlong)
    /\ NoteIdle(2, FALSE)
    /\ cycle' = cycle + 2
    /\ UNCHANGED <<twoLeds, idx, regs, r22, ocr, capTx, capRx, timely, lowRun, relayOk, overlong, held, unseen, prevTx, relayed, r24, smashed>>

\* relay_bit, second sample, input low: sbic skips rjmp .+0 (2), nop (1)
RlS2Low ==
    /\ pc = "rl_s2"
    /\ env.din = 0
    /\ env' \in EnvAfter(env, S2Cycles(env.din))
    /\ pc' = AfterS2
    /\ NoteIn(S2Cycles(env.din), AfterS2, overlong)
    /\ NoteIdle(S2Cycles(env.din), FALSE)
    /\ cycle' = cycle + S2Cycles(env.din)
    /\ UNCHANGED <<twoLeds, idx, regs, r22, ocr, dout, capTx, capRx, timely, lowRun, relayOk, overlong, held, unseen, prevTx, relayed, r24, smashed>>

\* relay_bit, second sample, input high: sbic (1), rjmp .+0 (2), nop (1)
RlS2High ==
    /\ pc = "rl_s2"
    /\ env.din = 1
    /\ env' \in EnvAfter(env, S2Cycles(env.din))
    /\ pc' = AfterS2
    /\ lowRun' = 0
    /\ NoteIn(S2Cycles(env.din), AfterS2, overlong)
    /\ NoteIdle(S2Cycles(env.din), FALSE)
    /\ cycle' = cycle + S2Cycles(env.din)
    /\ UNCHANGED <<twoLeds, idx, regs, r22, ocr, dout, capTx, capRx, timely, relayOk, overlong, held, unseen, prevTx, relayed, r24, smashed>>

\* the last cbi of relay_bit (2)
RlCbi ==
    /\ pc = "rl_cbi"
    /\ env' \in EnvAfter(env, 2)
    /\ dout' = CBI(dout)
    /\ pc' = "jmp_relay_entry"
    /\ NoteIn(2, "jmp_relay_entry", overlong)
    /\ NoteIdle(2, FALSE)
    /\ cycle' = cycle + 2
    /\ UNCHANGED <<twoLeds, idx, regs, r22, ocr, capTx, capRx, timely, lowRun, relayOk, overlong, held, unseen, prevTx, relayed, r24, smashed>>

\* jmp relay_entry (3): back to the first copy of the .rept body
JmpRelayEntry ==
    /\ pc = "jmp_relay_entry"
    /\ env' \in EnvAfter(env, 3)
    /\ pc' = "poll"
    /\ idx' = 0
    /\ NoteIn(3, "poll", overlong)
    /\ NoteIdle(3, FALSE)
    /\ cycle' = cycle + 3
    /\ UNCHANGED <<twoLeds, regs, r22, ocr, dout, capTx, capRx, timely, lowRun, relayOk, overlong, held, unseen, prevTx, relayed, r24, smashed>>

\* after the 256th low poll: jmp update_now (3)
JmpUpdate ==
    /\ pc = "jmp_update"
    /\ env' \in EnvAfter(env, 3)
    /\ pc' = "update_now"
    /\ NoteIn(3, "update_now", overlong)
    /\ NoteIdle(3, TRUE)
    /\ NoteUnseen(3)
    /\ UNCHANGED <<twoLeds, idx, regs, r22, ocr, dout, capTx, capRx, timely, lowRun, relayOk, overlong, held, prevTx, cycle, relayed, r24, smashed>>

\* update_now: com r16..r18, and r19..r21 under TWO_LEDS (1 each)
UpdateNow ==
    /\ pc = "update_now"
    /\ env' \in EnvAfter(env, Cardinality(ComRegs(twoLeds)))
    /\ regs' = [r \in Regs |-> IF r \in ComRegs(twoLeds) THEN COM(regs[r]) ELSE regs[r]]
    /\ pc' = "sts"
    /\ idx' = 0
    /\ NoteIn(Cardinality(ComRegs(twoLeds)), "sts", overlong)
    /\ NoteIdle(Cardinality(ComRegs(twoLeds)), FALSE)
    /\ NoteUnseen(Cardinality(ComRegs(twoLeds)))
    /\ UNCHANGED <<twoLeds, r22, ocr, dout, capTx, capRx, timely, lowRun, relayOk, overlong, held, prevTx, cycle, relayed, r24, smashed>>

\* one sts of the commit (2)
Sts ==
    /\ pc = "sts"
    /\ env' \in EnvAfter(env, 2)
    /\ ocr' = [ocr EXCEPT ![StsSeq[idx + 1][1]] = regs[StsSeq[idx + 1][2]]]
    /\ IF idx + 1 < Len(StsSeq)
       THEN pc' = "sts" /\ idx' = idx + 1
       ELSE pc' = "jmp_capture" /\ idx' = 0
    /\ NoteIn(2, pc', overlong)
    /\ NoteIdle(2, FALSE)
    /\ NoteUnseen(2)
    /\ UNCHANGED <<twoLeds, regs, r22, dout, capTx, capRx, timely, lowRun, relayOk, overlong, held, prevTx, cycle, relayed, r24, smashed>>

\* jmp capture_start (3): straight into the next frame's capture
JmpCapture ==
    /\ pc = "jmp_capture"
    /\ env' \in EnvAfter(env, 3)
    /\ pc' = AfterCommit
    /\ idx' = 0
    /\ NewCapture
    /\ NoteIdle(3, FALSE)
    /\ NoteUnseen(3)
    /\ UNCHANGED <<twoLeds, regs, r22, ocr, dout, lowRun, cycle, r24, smashed>>

Next ==
    \/ StartFrame \/ WaitReset \/ RChkHigh \/ RChkLow \/ RChkDone
    \/ RbRiseLow \/ RbRiseHigh \/ RbDelay \/ RbSampleHigh \/ RbSampleLow
    \/ RbFallHigh \/ RbFallLow
    \/ PollLow \/ PollHigh \/ Sbi \/ JmpRelayBit \/ RlS1Short \/ RlS1Long
    \/ RlCbi0 \/ RlS2Low \/ RlS2High \/ RlCbi \/ JmpRelayEntry \/ JmpUpdate
    \/ UpdateNow \/ Sts \/ JmpCapture

Spec == Init /\ [][Next]_vars

\* loop() runs with interrupts off and no instruction of the block can stall:
\* the next instruction is always executed, and the sender goes on sending
LiveSpec == Init /\ [][Next]_vars /\ WF_vars(Next)

---------------------------------------------------------------------------
(* The earlier sketch, which relays a fixed number of pixels: loop() of
   src/unnamed/part_002.  It shares the registers, the duty registers and the
   data lines with the machine above; the observers of that machine stay as
   they are. *)

\* "ldi r22, 200": px_loop runs 200 times
PxCount == 200
\* px_loop holds 24 SMASH_SHIELDs, one pixel
SmashPerLoop == 24

\* Bounds of the sender of this sketch: the pulses in a frame
OldShortFrame == 1248
OldLongFrame == 4872
OldFrameLens == {OldShortFrame, OldLongFrame}

MainOnly == <<capTx, capRx, timely, pending, relayOk, overlong, idleCommits,
              held, unseen, prevTx, cycle, relayed>>

\* the line idle after a frame of pattern p; every frame has len pulses
OldIdle(p, len) == [din |-> 0, ph |-> "idle", age |-> 0, bit |-> 0,
                    pat |-> p, sent |-> 0, len |-> len]

\* the next pulse: the pattern's bits for the first two pixels, then 0, 1, 0, 1, ..
OldRise(e, p) ==
    [din |-> 1, ph |-> "high", age |-> 0,
     bit |-> IF e.sent < PatBits THEN TxBit(p, e.sent) ELSE e.sent % 2,
     pat |-> p, sent |-> e.sent + 1, len |-> e.len]

OldHighs(b) == Highs(b) \ {LongHigh}

\* one cycle of the line; a new frame, of the other pattern, begins only after
\* RelayPolls low reads in a row
OldTick(e, lr) ==
    LET a == e.age + 1
    IN  CASE e.ph = "idle" ->
               {e} \cup (IF lr >= RelayPolls THEN {OldRise(e, 3 - e.pat)} ELSE {})
          [] e.ph = "high" ->
               (IF \E h \in OldHighs(e.bit) : a < h THEN {[e EXCEPT !.age = a]} ELSE {})
               \cup (IF a \in OldHighs(e.bit)
                     THEN {[e EXCEPT !.din = 0, !.ph = "low", !.age = a]} ELSE {})
          [] OTHER ->
               IF a < BitPeriod THEN {[e EXCEPT !.age = a]}
               ELSE IF e.sent < e.len THEN {OldRise(e, e.pat)}
               ELSE {OldIdle(e.pat, e.len)}

RECURSIVE OldRun(_, _, _)
OldRun(e, k, lr) ==
    IF k = 0 THEN {e} ELSE UNION {OldRun(e2, k - 1, lr) : e2 \in OldTick(e, lr)}

OldAfter(e, k) == OldRun(e, k, lowRun)

\* a variant: "30: sbis; rjmp 30b" giving up after RelayPolls low reads, as relay_entry does now
SmashTimeout(lr) == IF lr >= RelayPolls THEN "update_now" ELSE "smash_rise"
\* SMASH_SHIELD, "30: sbis; rjmp 30b": a low read loops back, however many came before
AfterSmashLow(lr) == "smash_rise"

\* "sts 0x88, r17" .. "sts 0x47, r21": the last three only under TWO_LEDS
OldSts(two) == IF two THEN 6 ELSE 3

OldInit ==
    /\ twoLeds \in BOOLEAN
    /\ pc = "wait_reset"
    /\ idx = 0
    /\ regs = [r \in Regs |-> 0]
    /\ r22 = 0
    /\ r24 = 0
    /\ ocr = [n \in OcrNames |-> OffValue]
    /\ dout = 0
    /\ \E len \in OldFrameLens : env = OldIdle(2, len)
    /\ lowRun = 0
    /\ smashed = 0
    /\ capTx = <<>> /\ capRx = <<>> /\ timely = TRUE /\ pending = <<>>
    /\ relayOk = TRUE /\ overlong = FALSE /\ idleCommits = 0
    /\ held = [n \in OcrNames |-> OffValue]
    /\ unseen = FALSE /\ prevTx = <<>> /\ cycle = 0 /\ relayed = FALSE

\* wait_reset: ldi r22, 250 (1)
OldWaitReset ==
    /\ pc = "wait_reset"
    /\ env' \in OldAfter(env, 1)
    /\ r22' = SyncCount
    /\ pc' = "r_chk"
    /\ UNCHANGED <<twoLeds, idx, regs, r24, ocr, dout, lowRun, smashed, MainOnly>>

\* r_chk, input high: sbic (1), jmp wait_reset (3)
OldRChkHigh ==
    /\ pc = "r_chk"
    /\ env.din = 1
    /\ env' \in OldAfter(env, 4)
    /\ pc' = "wait_reset"
    /\ lowRun' = 0
    /\ UNCHANGED <<twoLeds, idx, regs, r22, r24, ocr, dout, smashed, MainOnly>>

\* r_chk, input low: sbic skips the jmp (3), dec (1), brne taken (2)
OldRChkLow ==
    /\ pc = "r_chk"
    /\ env.din = 0
    /\ r22 - 1 # 0
    /\ env' \in OldAfter(env, 6)
    /\ r22' = r22 - 1
    /\ lowRun' = Bump(lowRun)
    /\ UNCHANGED <<twoLeds, pc, idx, regs, r24, ocr, dout, smashed, MainOnly>>

\* the 250th low check: sbic skips (3), dec (1), brne falls through (1) into the first CAPT_SHIELD
OldRChkDone ==
    /\ pc = "r_chk"
    /\ env.din = 0
    /\ r22 - 1 = 0
    /\ env' \in OldAfter(env, 5)
    /\ r22' = 0
    /\ lowRun' = Bump(lowRun)
    /\ pc' = "capt_ldi"
    /\ idx' = 0
    /\ UNCHANGED <<twoLeds, regs, r24, ocr, dout, smashed, MainOnly>>

\* CAPT_SHIELD: ldi r24, 8 (1)
CaptLdi ==
    /\ pc = "capt_ldi"
    /\ env' \in OldAfter(env, 1)
    /\ r24' = BitsPerByte
    /\ pc' = "capt_rise"
    /\ UNCHANGED <<twoLeds, idx, regs, r22, ocr, dout, lowRun, smashed, MainOnly>>

\* "10: sbis; rjmp 10b", input low (3)
CaptRiseLow ==
    /\ pc = "capt_rise"
    /\ env.din = 0
    /\ env' \in OldAfter(env, 3)
    /\ lowRun' = Bump(lowRun)
    /\ UNCHANGED <<twoLeds, pc, idx, regs, r22, r24, ocr, dout, smashed, MainOnly>>

\* "10: sbis", input high: the rjmp is skipped (2)
CaptRiseHigh ==
    /\ pc = "capt_rise"
    /\ env.din = 1
    /\ env' \in OldAfter(env, 2)
    /\ lowRun' = 0
    /\ pc' = "capt_delay"
    /\ UNCHANGED <<twoLeds, idx, regs, r22, r24, ocr, dout, smashed, MainOnly>>

\* four nop (4)
CaptDelay ==
    /\ pc = "capt_delay"
    /\ env' \in OldAfter(env, 4)
    /\ pc' = "capt_sample"
    /\ UNCHANGED <<twoLeds, idx, regs, r22, r24, ocr, dout, lowRun, smashed, MainOnly>>

\* in r25 reads the input; lsl reg; sbrc r25, 7; ori reg, 1 (4)
CaptSample ==
    /\ pc = "capt_sample"
    /\ env' \in OldAfter(env, 4)
    /\ regs' = [regs EXCEPT ![16 + idx] = IF env.din = 1 THEN ORI1(LSL(@)) ELSE LSL(@)]
    /\ pc' = "capt_fall"
    /\ UNCHANGED <<twoLeds, idx, r22, r24, ocr, dout, lowRun, smashed, MainOnly>>

\* "11: sbic; rjmp 11b", input still high (3)
CaptFallHigh ==
    /\ pc = "capt_fall"
    /\ env.din = 1
    /\ env' \in OldAfter(env, 3)
    /\ lowRun' = 0
    /\ UNCHANGED <<twoLeds, pc, idx, regs, r22, r24, ocr, dout, smashed, MainOnly>>

\* "11: sbic" skips (2), dec r24 (1), then brne 10b taken (2), or not (1) and
\* com reg (1), on to the next CAPT_SHIELD or to "ldi r22, 200"
CaptFallLow ==
    /\ pc = "capt_fall"
    /\ env.din = 0
    /\ env' \in OldAfter(env, 5)
    /\ r24' = r24 - 1
    /\ IF r24 - 1 # 0
       THEN pc' = "capt_rise" /\ UNCHANGED <<regs, idx>>
       ELSE /\ regs' = [regs EXCEPT ![16 + idx] = COM(@)]
            /\ IF idx + 1 < CaptureBytes(twoLeds)
               THEN pc' = "capt_ldi" /\ idx' = idx + 1
               ELSE pc' = "px_ldi" /\ idx' = 0
    /\ UNCHANGED <<twoLeds, r22, ocr, dout, lowRun, smashed, MainOnly>>

\* ldi r22, 200 (1)
PxLdi ==
    /\ pc = "px_ldi"
    /\ env' \in OldAfter(env, 1)
    /\ r22' = PxCount
    /\ smashed' = 0
    /\ pc' = "smash_rise"
    /\ UNCHANGED <<twoLeds, idx, regs, r24, ocr, dout, lowRun, MainOnly>>

\* SMASH_SHIELD, "30: sbis; rjmp 30b", input low (3)
SmashRiseLow ==
    /\ pc = "smash_rise"
    /\ env.din = 0
    /\ env' \in OldAfter(env, 3)
    /\ lowRun' = Bump(lowRun)
    /\ pc' = AfterSmashLow(Bump(lowRun))
    /\ UNCHANGED <<twoLeds, idx, regs, r22, r24, ocr, dout, smashed, MainOnly>>

\* "30: sbis", input high: the rjmp is skipped (2)
SmashRiseHigh ==
    /\ pc = "smash_rise"
    /\ env.din = 1
    /\ env' \in OldAfter(env, 2)
    /\ lowRun' = 0
    /\ pc' = "smash_sbi"
    /\ UNCHANGED <<twoLeds, idx, regs, r22, r24, ocr, dout, smashed, MainOnly>>

\* sbi (2), nop (1): the output pulse of this SMASH_SHIELD begins
SmashSbi ==
    /\ pc = "smash_sbi"
    /\ env' \in OldAfter(env, 3)
    /\ dout' = 1
    /\ smashed' = smashed + 1
    /\ pc' = "smash_sample"
    /\ UNCHANGED <<twoLeds, idx, regs, r22, r24, ocr, lowRun, MainOnly>>

\* "sbis; cbi", input high: the cbi is skipped (2)
SmashSampleHigh ==
    /\ pc = "smash_sample"
    /\ env.din = 1
    /\ env' \in OldAfter(env, 2)
    /\ lowRun' = 0
    /\ pc' = "smash_fall"
    /\ UNCHANGED <<twoLeds, idx, regs, r22, r24, ocr, dout, smashed, MainOnly>>

\* "sbis; cbi", input low: sbis (1), cbi (2)
SmashSampleLow ==
    /\ pc = "smash_sample"
    /\ env.din = 0
    /\ env' \in OldAfter(env, 3)
    /\ dout' = 0
    /\ pc' = "smash_fall"
    /\ UNCHANGED <<twoLeds, idx, regs, r22, r24, ocr, lowRun, smashed, MainOnly>>

\* "31: sbic; rjmp 31b", input still high (3)
SmashFallHigh ==
    /\ pc = "smash_fall"
    /\ env.din = 1
    /\ env' \in OldAfter(env, 3)
    /\ lowRun' = 0
    /\ UNCHANGED <<twoLeds, pc, idx, regs, r22, r24, ocr, dout, smashed, MainOnly>>

\* "31: sbic" skips (2), cbi (2): on to the next SMASH_SHIELD, or to "dec r22"
SmashFallLow ==
    /\ pc = "smash_fall"
    /\ env.din = 0
    /\ env' \in OldAfter(env, 4)
    /\ dout' = 0
    /\ IF idx + 1 < SmashPerLoop
       THEN pc' = "smash_rise" /\ idx' = idx + 1
       ELSE pc' = "px_dec" /\ idx' = 0
    /\ UNCHANGED <<twoLeds, regs, r22, r24, ocr, lowRun, smashed, MainOnly>>

\* dec r22 (1), breq not taken (1), jmp px_loop (3)
PxDecMore ==
    /\ pc = "px_dec"
    /\ r22 - 1 # 0
    /\ env' \in OldAfter(env, 5)
    /\ r22' = r22 - 1
    /\ pc' = "smash_rise"
    /\ UNCHANGED <<twoLeds, idx, regs, r24, ocr, dout, lowRun, smashed, MainOnly>>

\* dec r22 (1), breq update_now taken (2)
PxDecDone ==
    /\ pc = "px_dec"
    /\ r22 - 1 = 0
    /\ env' \in OldAfter(env, 3)
    /\ r22' = 0
    /\ pc' = "update_now"
    /\ UNCHANGED <<twoLeds, idx, regs, r24, ocr, dout, lowRun, smashed, MainOnly>>

\* update_now: the three (six) sts, 2 cycles each
OldUpdateNow ==
    /\ pc = "update_now"
    /\ env' \in OldAfter(env, 2 * OldSts(twoLeds))
    /\ ocr' = [n \in OcrNames |->
                 IF \E i \in 1..OldSts(twoLeds) : StsSeq[i][1] = n
                 THEN regs[StsSeq[CHOOSE i \in 1..OldSts(twoLeds) : StsSeq[i][1] = n][2]]
                 ELSE ocr[n]]
    /\ pc' = "jmp_start"
    /\ UNCHANGED <<twoLeds, idx, regs, r22, r24, dout, lowRun, smashed, MainOnly>>

\* jmp start_frame (3)
OldJmpStart ==
    /\ pc = "jmp_start"
    /\ env' \in OldAfter(env, 3)
    /\ pc' = "wait_reset"
    /\ UNCHANGED <<twoLeds, idx, regs, r22, r24, ocr, dout, lowRun, smashed, MainOnly>>

OldNext ==
    \/ OldWaitReset \/ OldRChkHigh \/ OldRChkLow \/ OldRChkDone
    \/ CaptLdi \/ CaptRiseLow \/ CaptRiseHigh \/ CaptDelay \/ CaptSample
    \/ CaptFallHigh \/ CaptFallLow
    \/ PxLdi \/ SmashRiseLow \/ SmashRiseHigh \/ SmashSbi
    \/ SmashSampleHigh \/ SmashSampleLow \/ SmashFallHigh \/ SmashFallLow
    \/ PxDecMore \/ PxDecDone \/ OldUpdateNow \/ OldJmpStart

OldSpec == OldInit /\ [][OldNext]_vars

---------------------------------------------------------------------------
(* Properties *)

\* byte j of a bit sequence, most significant bit first
ByteOf(s, j) ==
    LET b(i) == s[BitsPerByte * (j - 1) + i]
    IN  128 * b(1) + 64 * b(2) + 32 * b(3) + 16 * b(4)
        + 8 * b(5) + 4 * b(6) + 2 * b(7) + b(8)

\* the bits of pattern p, as the sender puts them on the line
BitsOf(p, n) == [i \in 1..n |-> TxBit(p, i - 1)]

\* C1: once a capture whose every rising edge was seen as it happened has been
\* committed, OCR1B, OCR1A, OCR2A (and OCR0B, OCR2B, OCR0A with two pixels) hold
\* 255 minus bytes 1..6 of the transmitted bits, each byte taken most
\* significant bit first; with one pixel the second three stay at 255.
C1_DutyIsInverseOfByte ==
    (pc = "jmp_capture" /\ timely) =>
        /\ Len(capTx) = CaptureBits(twoLeds)
        /\ ocr["OCR1B"] = 255 - ByteOf(capTx, 1)
        /\ ocr["OCR1A"] = 255 - ByteOf(capTx, 2)
        /\ ocr["OCR2A"] = 255 - ByteOf(capTx, 3)
        /\ IF twoLeds
           THEN /\ ocr["OCR0B"] = 255 - ByteOf(capTx, 4)
                /\ ocr["OCR2B"] = 255 - ByteOf(capTx, 5)
                /\ ocr["OCR0A"] = 255 - ByteOf(capTx, 6)
           ELSE /\ ocr["OCR0B"] = OffValue
                /\ ocr["OCR2B"] = OffValue
                /\ ocr["OCR0A"] = OffValue

\* G = 0x00, R = 0xFF, B = 0x80, then 0x01, 0xA5, 0x7E, has just been committed
C1_Witness ==
    /\ pc = "jmp_capture" /\ timely /\ twoLeds
    /\ capTx = BitsOf(1, PatBits)
    /\ ocr["OCR1B"] = 255 /\ ocr["OCR1A"] = 0 /\ ocr["OCR2A"] = 127
    /\ ocr["OCR0B"] = 254 /\ ocr["OCR2B"] = 90 /\ ocr["OCR0A"] = 129

\* C2: as long as no pulse was still high when the relay polled again, every
\* pulse put on the output during RELAYING answers the oldest input pulse not
\* yet answered and carries its bit value; never more than one input pulse is
\* waiting; the pulse in hand is the only one waiting until its value is fixed;
\* and none is waiting when the relay times out.  So the output bits are the
\* input bits after the captured prefix, in order, each exactly once.
C2_RelayFaithful ==
    ~overlong =>
        /\ relayOk
        /\ Len(pending) <= 1
        /\ pc \in {"sbi", "jmp_relay_bit", "rl_s1"} => pending = <<env.bit>>
        /\ pc \in {"rl_cbi0", "rl_s2"} => pending = <<>>
        /\ (State(pc) = "COMMITTING" \/ pc = "jmp_update") => pending = <<>>

\* one pixel captured from the first frame and all 26 pulses after it relayed,
\* the last of them a one
C2_Witness ==
    /\ ~overlong /\ ~twoLeds /\ timely /\ pc = "rl_s2"
    /\ env.fr = 1 /\ env.sent = MaxLen /\ env.bit = 1 /\ dout = 1
    /\ relayOk /\ pending = <<>>

\* C3: the output line is low in every state of SYNCING, CAPTURING and
\* COMMITTING, so no pulse of the captured prefix shows on the output.
C3_PrefixNotForwarded ==
    State(pc) \in {"SYNCING", "CAPTURING", "COMMITTING"} => dout = 0

\* after one frame was committed, the last pulse of the next prefix is high on
\* the input
C3_Witness ==
    /\ pc = "rb_fall" /\ idx = CaptureBits(twoLeds) - 1
    /\ ocr["OCR1A"] # OffValue /\ env.din = 1
    /\ dout = 0

\* C4: the six duty registers are 255 at the start and no step taken in
\* SYNCING, CAPTURING or RELAYING changes any of them.
C4_DutyWrittenOnlyInCommit ==
    /\ \A n \in OcrNames : ocr[n] = OffValue
    /\ [][State(pc) # "COMMITTING" => ocr' = ocr]_vars

\* a second frame is being relayed while the outputs still show the first
C4_Witness ==
    /\ pc = "rl_s2" /\ relayOk
    /\ env.fr = 2
    /\ ocr["OCR1A"] # OffValue
    /\ ocr["OCR1A"] # 255 - ByteOf(capTx, 2)

\* C5: between two rising edges of the input COMMITTING is entered at most
\* once; it is entered only with a complete capture behind it; while the line
\* is still idle in COMMITTING that one entry has been counted; and a relay
\* that has read RelayPolls lows in a row is on its way to the commit, never
\* polling on.
C5_OneCommitPerIdlePeriod ==
    /\ idleCommits <= 1
    /\ State(pc) = "COMMITTING" => Len(capTx) = CaptureBits(twoLeds)
    /\ (State(pc) = "COMMITTING" /\ env.ph = "idle") => idleCommits = 1
    /\ (State(pc) = "RELAYING" /\ lowRun = RelayPolls) => pc = "jmp_update"

\* the line has stayed low since the commit, for RelayPolls more polls and beyond
C5_Witness ==
    /\ idleCommits = 1 /\ pc = "rb_rise" /\ idx = 0
    /\ lowRun = RelayPolls /\ env.ph = "idle" /\ capTx = <<>>
    /\ ocr["OCR1A"] # OffValue

\* C6: the relay leaves for the commit only with RelayPolls low reads in a row
\* behind it; while it polls, the poll it is at is the number of lows read
\* since the last high one; a high read raises the output for one pulse, sets
\* the count of lows back to zero, stays in RELAYING and enters no commit.
C6_CommitOnlyAfterFullBudget ==
    /\ pc \in {"jmp_update", "update_now"} => lowRun = RelayPolls
    /\ pc = "poll" => idx < RelayPolls /\ (idx > 0 => idx = lowRun)
    /\ pc \in {"sbi", "jmp_relay_bit", "rl_s1"} => lowRun = 0 /\ idleCommits = 0
    /\ pc \in {"jmp_relay_bit", "rl_s1"} => dout = 1
    /\ pc \in {"jmp_relay_entry", "poll"} => dout = 0

\* the next frame's first pulse was read high part-way through the polls
C6_Witness ==
    /\ pc = "rl_s1" /\ env.fr = 2 /\ env.sent = 1 /\ env.det
    /\ lowRun = 0 /\ dout = 1 /\ idleCommits = 0

\* C7: the output is low whenever the relay polls for the next rising edge and
\* when it leaves for, and enters, the commit.
C7_OutputLowWhileWaiting ==
    pc \in {"poll", "jmp_update", "update_now"} => dout = 0

\* a pulse that was still high at the second sample has been relayed and the
\* relay polls again
C7_Witness ==
    /\ pc = "poll" /\ idx = 0 /\ dout = 0
    /\ ~overlong /\ env.det /\ env.bit = 1 /\ relayOk /\ pending = <<>>

\* C8: the phase changes only SYNCING to CAPTURING, CAPTURING to RELAYING,
\* RELAYING to COMMITTING and COMMITTING to CAPTURING, starting from SYNCING.
C8_PhaseOrder ==
    /\ State(pc) = "SYNCING"
    /\ [][State(pc') # State(pc) =>
              <<State(pc), State(pc')>> \in
                  {<<"SYNCING", "CAPTURING">>, <<"CAPTURING", "RELAYING">>,
                   <<"RELAYING", "COMMITTING">>, <<"COMMITTING", "CAPTURING">>}]_vars

\* a commit has handed over to the capture of the next frame
C8_Witness ==
    /\ pc = "rb_rise" /\ idx = 0 /\ capTx = <<>>
    /\ ocr["OCR1B"] # OffValue /\ held = ocr

\* C9, as the specification states it: two pixels configured, 24 bits sent
\* and then RelayPolls low reads: the first pixel's outputs show the sent
\* values and the second pixel's are 255.
C9_ShortFrameCommitsFirstPixel ==
    (twoLeds /\ timely /\ Len(capTx) = 3 * BitsPerByte /\ lowRun = RelayPolls) =>
        /\ ocr["OCR1B"] = 255 - ByteOf(capTx, 1)
        /\ ocr["OCR1A"] = 255 - ByteOf(capTx, 2)
        /\ ocr["OCR2A"] = 255 - ByteOf(capTx, 3)
        /\ ocr["OCR0B"] = OffValue
        /\ ocr["OCR2B"] = OffValue
        /\ ocr["OCR0A"] = OffValue

\* C9, as the program has it: in that situation r16..r18 hold the three bytes
\* sent, READ_BIT still waits for bit 24, and no duty register has been
\* written since the capture began.
C9_ShortFrameCommitsNothing ==
    (twoLeds /\ timely /\ Len(capTx) = 3 * BitsPerByte /\ lowRun = RelayPolls) =>
        /\ pc = "rb_rise" /\ idx = 3 * BitsPerByte
        /\ regs[16] = ByteOf(capTx, 1)
        /\ regs[17] = ByteOf(capTx, 2)
        /\ regs[18] = ByteOf(capTx, 3)
        /\ ocr = held

\* G = 0x00, R = 0xFF, B = 0x80 was sent alone as the first frame
C9_Witness ==
    /\ twoLeds /\ timely /\ capTx = BitsOf(1, 3 * BitsPerByte)
    /\ lowRun = RelayPolls /\ env.ph = "idle" /\ env.fr = 1
    /\ pc = "rb_rise" /\ regs[17] = 255
    /\ \A n \in OcrNames : ocr[n] = OffValue

\* C10: a capture that has some but not all of its bits is in CAPTURING and
\* has written no duty register, however many lows it has read; a low read at
\* the start of READ_BIT changes nothing but the line and the count of lows,
\* and a high read there is taken as the next bit of the same capture.
C10_CaptureNeverTimesOut ==
    /\ [](Len(capTx) \in 1..(CaptureBits(twoLeds) - 1) =>
              State(pc) = "CAPTURING" /\ ocr = held)
    /\ [][pc = "rb_rise" =>
              IF env.din = 0
              THEN /\ pc' = "rb_rise" /\ idx' = idx /\ regs' = regs
                   /\ capTx' = capTx /\ ocr' = ocr /\ dout' = dout
              ELSE /\ pc' = "rb_delay" /\ idx' = idx
                   /\ capTx' = Append(capTx, env.bit)]_vars

\* after more than RelayPolls low reads in the middle of a capture, the input
\* is high again
C10_Witness ==
    /\ pc = "rb_rise" /\ idx \in 1..(CaptureBits(twoLeds) - 1)
    /\ Len(capTx) = idx /\ lowRun = RelayPolls
    /\ env.din = 1 /\ env.fr = 2 /\ ocr = held

\* C11, as the specification states it: whenever READ_BIT waits for bit 0 of
\* a capture, the reads before it were low at least SyncCount times in a row,
\* and a pulse that is high on the line at that point is the first pulse of
\* its frame.
C11_BitZeroIsFirstPulse ==
    (pc = "rb_rise" /\ idx = 0) =>
        /\ lowRun >= SyncCount
        /\ env.ph = "high" => env.sent = 1

\* C11, as the program has it: the run of low reads is there, and the pulse
\* is the first of its frame, risen no more than two cycles ago, as long as
\* no pulse rose in the cycles between the last low read and the first read
\* of the capture, in which the input is not read at all.
C11_BitZeroAfterIdleRun ==
    (pc = "rb_rise" /\ idx = 0) =>
        /\ lowRun >= SyncCount
        /\ (env.ph = "high" /\ ~unseen) => env.sent = 1 /\ env.age <= 2

\* two pixels: a frame of one pixel, 00 FF 80, and the first pixel of the next,
\* 5A 3C C3, were committed together, and the capture waits for bit 0 again
C11_Witness ==
    /\ twoLeds /\ pc = "rb_rise" /\ idx = 0 /\ lowRun >= SyncCount /\ ~unseen
    /\ env.fr = 2 /\ env.ph = "idle"
    /\ ocr["OCR1B"] = 255 /\ ocr["OCR1A"] = 0 /\ ocr["OCR2A"] = 127
    /\ ocr["OCR0B"] = 165 /\ ocr["OCR2B"] = 195 /\ ocr["OCR0A"] = 60

\* C12: when a capture whose pulses were all seen as they rose took the same
\* bits as the capture before it, the commit leaves every duty register with
\* the value the commit before had written.
C12_CommitIdempotent ==
    (pc = "jmp_capture" /\ timely /\ capTx = prevTx) => ocr = held

\* the frame 5A 3C C3 FE 10 81 was captured and committed twice in a row
C12_Witness ==
    /\ pc = "jmp_capture" /\ timely /\ twoLeds
    /\ capTx = BitsOf(2, PatBits) /\ prevTx = capTx
    /\ ocr = held /\ ocr["OCR1B"] = 165 /\ ocr["OCR0A"] = 126

\* the duty register of channel byte j of a frame: G1 R1 B1 G2 R2 B2
ChannelOf(j) == <<"OCR1B", "OCR1A", "OCR2A", "OCR0B", "OCR2B", "OCR0A">>[j]

\* C13: what a commit writes is fixed by the bits READ_BIT sampled since the
\* commit before, and by nothing earlier: once the capture is complete each
\* capture register holds exactly its eight sampled bits, and after the commit
\* each duty register holds 255 minus that byte (255 for the second pixel when
\* only one is configured), whatever the registers held before.
C13_CommitDependsOnCaptureOnly ==
    /\ (State(pc) = "RELAYING" \/ pc = "update_now") =>
           /\ Len(capRx) = CaptureBits(twoLeds)
           /\ \A j \in 1..CaptureBytes(twoLeds) : regs[15 + j] = ByteOf(capRx, j)
    /\ pc = "jmp_capture" =>
           \A j \in 1..6 :
               ocr[ChannelOf(j)] = IF j <= CaptureBytes(twoLeds)
                                   THEN 255 - ByteOf(capRx, j) ELSE OffValue

\* 00 FF 80 01 A5 7E has been committed over the values of 5A 3C C3 FE 10 81
C13_Witness ==
    /\ pc = "jmp_capture" /\ twoLeds
    /\ capRx = BitsOf(1, PatBits) /\ prevTx = BitsOf(2, PatBits)
    /\ held["OCR1A"] = 195 /\ ocr["OCR1A"] = 0

\* C14: with one pixel configured, OCR0B, OCR2B and OCR0A hold 255 in every
\* state, and r19, r20 and r21 hold 255 from the end of start_frame on.
C14_SecondPixelStaysOff ==
    ~twoLeds =>
        /\ ocr["OCR0B"] = OffValue /\ ocr["OCR2B"] = OffValue /\ ocr["OCR0A"] = OffValue
        /\ pc # "start_frame" => regs[19] = 255 /\ regs[20] = 255 /\ regs[21] = 255

\* one pixel: two frames have been committed, the last one just now
C14_Witness ==
    /\ ~twoLeds /\ pc = "jmp_capture" /\ prevTx # <<>>
    /\ ocr["OCR1A"] # OffValue
    /\ ocr["OCR0B"] = OffValue /\ ocr["OCR2B"] = OffValue /\ ocr["OCR0A"] = OffValue
    /\ regs[19] = 255 /\ regs[20] = 255 /\ regs[21] = 255

\* C15: a capture reads 24 bits with one pixel and 48 with two, one pulse
\* each: while bit idx is being read, idx pulses and the one in hand have been
\* taken; no pulse is taken twice and, after bit 0, none goes by untaken; the
\* relay and the commit are only ever reached with exactly 24 or 48 taken.
C15_FixedCaptureLength ==
    LET n == IF twoLeds THEN 48 ELSE 24
    IN  /\ State(pc) = "CAPTURING" =>
               /\ idx < n
               /\ Len(capTx) = IF pc = "rb_rise" THEN idx ELSE idx + 1
               /\ Len(capRx) = IF pc \in {"rb_rise", "rb_delay", "rb_sample"}
                               THEN idx ELSE idx + 1
        /\ (pc = "rb_rise" /\ env.din = 1) => ~env.det
        /\ (pc = "rb_rise" /\ idx > 0 /\ env.ph = "low") => env.det
        /\ State(pc) \in {"RELAYING", "COMMITTING"} => Len(capTx) = n /\ Len(capRx) = n

\* two pixels: the relay has just been entered behind the 48th pulse of a frame
\* of zeros and ones
C15_Witness ==
    /\ twoLeds /\ pc = "poll" /\ idx = 0 /\ pending = <<>> /\ dout = 0
    /\ Len(capTx) = 48 /\ env.sent = 48 /\ env.det
    /\ \E i, j \in 1..48 : capTx[i] = 0 /\ capTx[j] = 1

\* C16: from cold start nothing is captured before 250 low checks in a row:
\* in wait_reset/r_chk the counter always equals 250 less the lows sampled
\* since the last high sample (a high sample sends it back to 250), nothing has
\* been captured or committed, the last check is out of reach while a frame's
\* pulses are on the line, and the counter is spent once SYNCING has been left.
C16_SyncNeedsFullIdleRun ==
    /\ pc = "wait_reset" => lowRun = 0
    /\ pc = "r_chk" => r22 >= 1 /\ r22 = SyncCount - lowRun
    /\ State(pc) = "SYNCING" =>
           /\ capTx = <<>> /\ capRx = <<>> /\ idx = 0
           /\ \A n \in OcrNames : ocr[n] = OffValue
           /\ (pc = "r_chk" /\ env.ph \in {"high", "low"}) => r22 > 1
    /\ State(pc) # "SYNCING" => r22 = 0

\* a whole frame went by during SYNCING without one bit captured, and the
\* capture begins 250 low checks after it
C16_Witness ==
    /\ pc = "rb_rise" /\ idx = 0 /\ r22 = 0 /\ lowRun = SyncCount
    /\ env.fr = 1 /\ env.ph = "idle" /\ capTx = <<>> /\ prevTx = <<>>
    /\ \A n \in OcrNames : ocr[n] = OffValue

\* the duty registers hold the complement of the bytes of pattern p
Committed(p) ==
    /\ pc = "jmp_capture"
    /\ \A j \in 1..CaptureBytes(twoLeds) :
           ocr[ChannelOf(j)] = 255 - ByteOf(BitsOf(p, PatBits), j)

\* the input is not a sequence of whole frames of in-range pulses: a pulse held
\* high beyond a '1', or a frame that ended before the capture was full
Malformed ==
    \/ env.ph = "stuck"
    \/ env.ph = "high" /\ env.age > T1HMax
    \/ overlong
    \/ env.ph = "idle" /\ State(pc) = "CAPTURING" /\ (idx > 0 \/ pc # "rb_rise")

C18_OutputFallsAfterInput ==
    [][(pc = "rl_cbi" /\ dout = 1) => (dout' = 0 /\ env'.din = 0)]_vars

\* C18, amended: relay_bit does not wait for the input: the output pulse of a
\* relayed 1 falls at the end of cycle 15 (cycle 14 when the second sample reads
\* low), and the input is still high at that moment only if its pulse has
\* lasted longer than a '1' may.
C18_OutputFallsAtFixedCycle ==
    [][(pc = "rl_cbi" /\ dout = 1)
         => /\ dout' = 0
            /\ cycle' \in {14, 15}
            /\ env'.din = 1 => env'.age > T1HMax]_vars

\* the longest '1' in range, detected as it rose and still high at the second
\* sample: the input has fallen when the output falls with cycle 15
C18_Witness ==
    /\ pc = "jmp_relay_entry" /\ dout = 0 /\ cycle = 15
    /\ env.ph = "low" /\ env.bit = 1 /\ env.det /\ env.age = cycle
    /\ relayOk /\ ~overlong

\* C19: whenever the relay is back at its first poll after a pulse, 18 cycles
\* have run since the poll that detected the pulse, that poll's first cycle
\* being cycle 1.
C19_ReturnAtCycle18 ==
    (pc = "poll" /\ cycle # 0) => cycle = 18

\* C20: while no pulse of the stream has been held beyond a '1', every pulse a
\* relay poll reads high for the first time rose at most 2 cycles before that
\* read, whatever the number of pulses relayed before it.
C20_RelayDetectsWithinTwoCycles ==
    (pc = "poll" /\ env.din = 1 /\ ~env.det /\ ~overlong) => env.age <= 2

\* one pixel, a frame of 50 pulses: the 26th relayed pulse is about to be
\* detected 2 cycles after it rose
C20_Witness ==
    /\ ~twoLeds /\ pc = "poll"
    /\ env.din = 1 /\ ~env.det /\ env.age = 2 /\ env.sent = MaxLen
    /\ ~overlong /\ relayOk

\* C21 as stated: whatever the input does in the end (idle low for good, or
\* high for good), the machine ends up at one wait point for good, READ_BIT's
\* wait for a rise, its wait for a fall, or the sync wait, with the output at
\* rest.
C21_EndsBlocked ==
    \/ <>[](pc = "rb_rise" /\ dout = 0)
    \/ <>[](pc = "rb_fall" /\ dout = 0)
    \/ <>[](State(pc) = "SYNCING" /\ dout = 0)

\* C21, amended: with the input low for good the machine ends up in READ_BIT's
\* wait for a rise; with the input high for good it ends up in the sync wait
\* or in READ_BIT's wait for a fall, unless it was relaying: then it stays in
\* RELAYING for good and the output goes high and low again and again.
C21_EndsBlockedOrRelaying ==
    \/ <>[](pc = "rb_rise" /\ dout = 0 /\ env.ph = "idle")
    \/ <>[](pc = "rb_fall" /\ dout = 0 /\ env.ph = "stuck")
    \/ <>[](State(pc) = "SYNCING" /\ dout = 0 /\ env.ph = "stuck")
    \/ /\ <>[](State(pc) = "RELAYING" /\ env.ph = "stuck")
       /\ []<>(dout = 1)
       /\ []<>(dout = 0)

\* the input is high for good and the relay is regenerating it once more
C21_Witness ==
    /\ env.ph = "stuck" /\ overlong /\ pc = "rl_cbi" /\ dout = 1 /\ cycle = 13

\* C22: a pulse the relay regenerates has a width the sender of a stream may
\* give to the same bit value (6 cycles for a 0; 10 or 11 for a 1), and
\* READ_BIT, having detected a pulse within 2 cycles of its rise, samples the
\* bit value its sender gave it, for every such width: what one controller
\* relays, the next one captures bit for bit.
C22_RegeneratedPulseDecodes ==
    [][/\ (pc \in {"rl_cbi0", "rl_cbi"} /\ dout = 1 /\ ~overlong)
            => /\ dout' = 0
               /\ (cycle' - 4) \in (Highs(env.bit) \ {LongHigh})
               /\ (cycle' - 4) \in {RelayHigh0, RelayHigh1 - 1, RelayHigh1}
       /\ (pc = "rb_sample" /\ timely) => capRx' = Append(capRx, env.bit)]_vars

\* two pixels decoded bit for bit from a frame of zeros and ones, and its 49th
\* pulse, a 1, regenerated 11 cycles wide
C22_Witness ==
    /\ twoLeds /\ timely /\ capRx = capTx /\ Len(capRx) = 48
    /\ \E i, j \in 1..48 : capRx[i] = 0 /\ capRx[j] = 1
    /\ pc = "jmp_relay_entry" /\ dout = 0 /\ cycle - 4 = RelayHigh1
    /\ env.bit = 1 /\ env.sent = 49 /\ relayOk /\ ~overlong

\* C23: READ_BIT's sbic samples a pulse 7, 8 or 9 cycles after it rose, whenever
\* the wait for the rise was already polling when it rose (always so after bit
\* 0; for bit 0, when the pulse was detected within 2 cycles of its rise).
C23_SampleSevenToNineCycles ==
    (pc = "rb_sample" /\ (idx > 0 \/ timely)) =>
        /\ env.det /\ env.ph \in {"high", "low"}
        /\ env.age \in 7..9

\* the last bit of a two-pixel capture, a 1 detected 2 cycles after its rise,
\* is about to be sampled 9 cycles after its rise
C23_Witness ==
    /\ twoLeds /\ pc = "rb_sample" /\ idx = 47 /\ timely
    /\ env.age = 9 /\ env.ph = "high" /\ env.bit = 1 /\ env.det

\* C24: the sample writes the level it reads into bit 0 of the register, the
\* other bits staying as lsl left them; so, when the wait for the rise was
\* polling as the pulse rose, a pulse high for more than 9 cycles gives 1 and
\* one high for fewer than 7 gives 0.
C24_DecodedAsSampled ==
    [][pc = "rb_sample" =>
         /\ regs'[RegOf(idx)] % 2 = env.din
         /\ regs'[RegOf(idx)] \div 2 = regs[RegOf(idx)] \div 2
         /\ regs[RegOf(idx)] % 2 = 0
         /\ (idx > 0 \/ timely) =>
                regs'[RegOf(idx)] % 2 = (IF \A h \in Highs(env.bit) : h > 9 THEN 1 ELSE 0)
         /\ (\A h \in Highs(env.bit) : h > 9) \/ (\A h \in Highs(env.bit) : h < 7)]_vars

\* a 1 detected 2 cycles late and sampled high 9 cycles after its rise, fallen
\* by the time READ_BIT looks for the fall
C24_Witness ==
    /\ pc = "rb_fall" /\ idx > 0 /\ regs[RegOf(idx)] % 2 = 1
    /\ env.bit = 1 /\ env.ph = "low" /\ env.age = 11 /\ env.det

\* C25: the output pulse of the relay is 6 cycles wide when the first sample of
\* relay_bit reads low and 11 cycles wide when it reads high (the output rose
\* at the end of cycle 4).
C25_FixedOutputWidths ==
    [][/\ (pc = "rl_cbi0" /\ dout = 1) => (dout' = 0 /\ cycle' - 4 = RelayHigh0)
       /\ (pc = "rl_cbi" /\ dout = 1) => (dout' = 0 /\ cycle' - 4 = RelayHigh1)]_vars

\* C26: when the relay is entered behind the last pulse of a frame that has
\* exactly the capture's length, then, unless the input rises again, the
\* machine goes on to commit the bytes of that frame without the relay having
\* detected one pulse; and the output is high only inside relay_bit.
C26_ExactFrameCommitted ==
    /\ [](dout = 1 => pc \in {"jmp_relay_bit", "rl_s1", "rl_cbi0", "rl_s2", "rl_cbi"})
    /\ \A p \in 1..NumPatterns :
           (/\ pc = "poll" /\ idx = 0 /\ ~relayed /\ timely
            /\ env.pat = p /\ env.sent = CaptureBits(twoLeds) /\ env.din = 0)
               ~> ((Committed(p) /\ ~relayed) \/ env.din = 1)

\* two pixels, one frame of 48 pulses: 256 low polls after it, the commit has
\* written its bytes and the relay has detected nothing
C26_Witness ==
    /\ twoLeds /\ Committed(1) /\ ~relayed /\ timely /\ dout = 0
    /\ capTx = BitsOf(1, PatBits) /\ env.fr = 1 /\ env.ph = "idle"
    /\ prevTx = <<>> /\ lowRun = RelayPolls

\* the SMASH_SHIELDs begun since "ldi r22, 200", as r22 and the place in px_loop give them
SmashCount ==
    CASE pc \in {"smash_rise", "smash_sbi"} -> (PxCount - r22) * SmashPerLoop + idx
      [] pc \in {"smash_sample", "smash_fall"} -> (PxCount - r22) * SmashPerLoop + idx + 1
      [] pc = "px_dec" -> (PxCount - r22 + 1) * SmashPerLoop
      [] pc \in {"update_now", "jmp_start"} -> PxCount * SmashPerLoop
      [] OTHER -> smashed

C27_IdleGapWaits ==
    /\ pc = "smash_rise" /\ lowRun = RelayPolls /\ env.ph = "idle"
    /\ smashed = OldShortFrame - PatBits
    /\ \A n \in OcrNames : ocr[n] = OffValue
====
